---- MODULE Spec2Model ----
(***************************************************************************)
(* Multi-fidelity batch Bayesian optimisation controllers of bayes_op.py:  *)
(* the batch-filling optimisation loop (mfLiveBatch, MultiTaskUCBwILP,     *)
(* MF_MES, MF_TuRBO), the sequential variants (mfUCB, mfUCBPlus), the      *)
(* fidelity selector of optimise_af and the trust-region state of TuRBO.   *)
(*                                                                         *)
(* Numbers: observed values, posterior predictions, thresholds and the     *)
(* bias bound are integers in units of 0.1; the trust-region length is an  *)
(* integer in units of 1/(5*2^20), so that halving and doubling are exact. *)
(* The Gaussian-process posterior and the environment are opaque           *)
(* collaborators: every value they return is a nondeterministic choice.    *)
(***************************************************************************)
EXTENDS Integers, Sequences, FiniteSets, TLC

(* ------------------------------ bounds --------------------------------- *)
MaxBudget == 2
MaxResolved == 2
MaxRounds == 3
MaxAFCalls == 10
MaxCalls == 30
MaxPenalty == 1

(* ------------------------- program constants --------------------------- *)
NumFid == 3
cost_budget == 4
Fids == 0 .. (NumFid - 1)
LowFids == 1 .. (NumFid - 1)
fidelity_costs == [f \in Fids |-> CASE f = 0 -> 4 [] f = 1 -> 2 [] OTHER -> 1]
expected_costs == [f \in Fids |-> CASE f = 0 -> 4 [] f = 1 -> 2 [] OTHER -> 1]
PriorConstant == 6
MeanConstant == 0

\* hp_update_frequency = None
None == 0
DefaultThreshold == 1
NegInf == -1000000

UCBFamily == {"mfLiveBatch", "mfUCB", "mfUCBPlus"}
Batching == {"mfLiveBatch", "MultiTaskUCBwILP", "MF_MES", "MF_TuRBO"}
Sequential == {"mfUCB", "mfUCBPlus"}
Variants == Batching \cup Sequential

FidelityChoices == {"variance_thresholds", "information_based"}

\* the classes whose constructor takes fidelity_choice
TakesFidelityChoice == {"MultiTaskUCBwILP", "MF_TuRBO"}

(* --------------------- values of the collaborators --------------------- *)
PredVals == {0, 5}
StdVals == {0, 3}
IGVals == {1, 2}
BetaVals == {1, 2}
InitialBiasVals == {-11, 1}
TurboObs == {NegInf} \cup (0 .. 21) \cup {1000, 1001}
DimVals == {2, 5}

\* distance of a candidate from a penalty point and Lipschitz constants
\* seen by build_af
NormVals == {0, 2}
LipschitzVals == {1, 2}

\* acquisition-function names passed to generate_batch
AcqfVals == {"ts", "ei", "s"}

\* fidelity_thresholds given to the constructor (None gives 0.1 everywhere)
ThresholdVals == {1, 8}

\* thresholds of the selector alone: 3 and its doubles 6 and 12 are values
\* the statistic itself can take
AFThresholdVals == {1, 3, 8}

\* the objective of a run, one value per fidelity
Objectives ==
  {[f \in Fids |-> -10], [f \in Fids |-> 10], [f \in Fids |-> IF f = 0 THEN 10 ELSE -10]}

\* the point optimise_af returns; a query is a point and a fidelity
Point == "x0"

\* np.random.uniform(size = (1, self.dim)): the point of a filler query
RandomPoint == "u0"

\* list(obtain_query[i, :].reshape(-1)): the coordinates of the point
ListOf(x) == [nested |-> FALSE, point |-> x]

\* list(X[i, :].reshape(1, -1)): a list holding the point as one row
NestedListOf(x) == [nested |-> TRUE, point |-> x]

\* new_X, new_M before optimise_af has returned anything
NoQuery == [x |-> Point, m |-> -1]

\* the attributes of the controller, the position pc in the script, the
\* queries in flight, and records of what happened: obtained (the last batch
\* returned), n_af, n_loops, n_drains (calls made), hist (the trust-region
\* history), acqf and X_next (the last call of generate_batch), run_length
\* (runs of selections), post_std and IGs (what the surrogate reported at the
\* last call of the selector taken alone), f_low_fid_pred (the posterior
\* means read while the last batch was ingested)
VARIABLES cfg, pc, current_time, batch_costs, beta,
          fidelity_thresholds, fidelity_count_list,
          bias_constant, max_value, X, Y, T,
          query_being_evaluated, new_Xs, new_XM,
          query_list, obtained, n_af,
          n_loops, n_drains, state, hist,
          bias_X, bias_Y, ucb, min_ucb,
          acqf,
          X_next,
          post_std, IGs,
          run_length,
          f_low_fid_pred,
          last_n_obs, gp_hyperparams, hp_optimised, obs_since,
          lipschitz_batch_list,
          penalisers,
          caller_thresholds, fidelity_thresholds_init

vars == <<cfg, pc, current_time, batch_costs, beta,
          fidelity_thresholds, fidelity_count_list,
          bias_constant, max_value, X, Y, T,
          query_being_evaluated, new_Xs, new_XM,
          query_list, obtained, n_af,
          n_loops, n_drains, state, hist,
          bias_X, bias_Y, ucb, min_ucb,
          acqf,
          X_next,
          post_std, IGs,
          run_length,
          f_low_fid_pred,
          last_n_obs, gp_hyperparams, hp_optimised, obs_since,
          lipschitz_batch_list,
          penalisers,
          caller_thresholds, fidelity_thresholds_init>>

Max(a, b) == IF a >= b THEN a ELSE b
Min(a, b) == IF a <= b THEN a ELSE b
Abs(a) == IF a >= 0 THEN a ELSE 0 - a

(* ----------------------------- TurboState ------------------------------ *)
LengthInit == 4 * 1048576
LengthMax == 8 * 1048576
LengthMin == 5 * 8192
SuccessTolerance == 10

CeilDiv(a, b) == (a + b - 1) \div b

\* TurboState.__post_init__
post_init(dim, batch_size) == Max(CeilDiv(4, batch_size), CeilDiv(dim, batch_size))

TurboState(dim) ==
  [dim |-> dim, batch_size |-> 1,
   length |-> LengthInit, length_min |-> LengthMin, length_max |-> LengthMax,
   failure_counter |-> 0, failure_tolerance |-> post_init(dim, 1),
   success_counter |-> 0, success_tolerance |-> SuccessTolerance,
   best_value |-> NegInf, restart_triggered |-> FALSE]

\* max(Y_next) > best_value + 1e-3 * fabs(best_value); with best_value = -inf
\* the right-hand side is -inf + inf = NaN and the comparison is False
IsSuccess(y, best) ==
  IF best = NegInf THEN FALSE
  ELSE IF y = NegInf THEN FALSE
  ELSE 1000 * y > 1000 * best + Abs(best)

ExpandMut(len, lmax) == 2 * len

Expand(len, lmax) == Min(2 * len, lmax)

ShrinkMut(len) == len

Shrink(len) == len \div 2

BestValueMut(best, y) == y

\* state.best_value = max(state.best_value, max(Y_next).item())
BestValue(best, y) == Max(best, y)

RestartFlagMut(flag, len, lmin) == flag

\* if state.length < state.length_min: state.restart_triggered = True
RestartFlag(flag, len, lmin) == IF len < lmin THEN TRUE ELSE flag

update_state(s, y) ==
  LET s1 == IF IsSuccess(y, s.best_value)
              THEN [s EXCEPT !.success_counter = @ + 1, !.failure_counter = 0]
              ELSE [s EXCEPT !.success_counter = 0, !.failure_counter = @ + 1]
      s2 == IF s1.success_counter = s1.success_tolerance
              THEN [s1 EXCEPT !.length = Expand(@, s1.length_max),
                              !.success_counter = 0]
              ELSE IF s1.failure_counter = s1.failure_tolerance
                THEN [s1 EXCEPT !.length = Shrink(@), !.failure_counter = 0]
                ELSE s1
      s3 == [s2 EXCEPT !.best_value = BestValue(@, y)]
  IN  [s3 EXCEPT !.restart_triggered = RestartFlag(@, s3.length, s3.length_min)]

\* history of the observations fed to update_state since construction:
\* calls - how many; improving - each one was greater than every earlier
\* one; nonimproving - none was greater than the best value before it;
\* fed_max - the greatest of them
HistInit == [calls |-> 0, improving |-> TRUE, nonimproving |-> TRUE, fed_max |-> NegInf]

HistNext(h, s, y) ==
  [calls |-> h.calls + 1,
   improving |-> h.improving /\ y > s.best_value,
   nonimproving |-> h.nonimproving /\ ~(y > s.best_value),
   fed_max |-> IF y > h.fed_max THEN y ELSE h.fed_max]

(* --------------------------- small helpers ----------------------------- *)
\* "self.fidelity_thresholds = fidelity_thresholds": the attribute is the
\* list object of the caller, so an item assignment through the attribute
\* is an assignment to the caller's list; <<>> when no list was passed
WriteThrough(caller, thr) == IF caller = <<>> THEN caller ELSE thr

RECURSIVE SumCosts(_)
SumCosts(qs) == IF qs = <<>> THEN 0 ELSE fidelity_costs[Head(qs).m] + SumCosts(Tail(qs))

\* the elements of seq whose index is in S, in order
RECURSIVE Pick(_, _, _)
Pick(seq, S, i) ==
  IF i > Len(seq) THEN <<>>
  ELSE IF i \in S THEN <<seq[i]>> \o Pick(seq, S, i + 1)
  ELSE Pick(seq, S, i + 1)

RECURSIVE ColumnOf(_, _, _)
ColumnOf(obs, f, col) ==
  IF obs = <<>> THEN <<>>
  ELSE IF Head(obs).m = f THEN <<Head(obs)[col]>> \o ColumnOf(Tail(obs), f, col)
  ELSE ColumnOf(Tail(obs), f, col)

IsPrefix(s, t) == Len(s) <= Len(t) /\ SubSeq(t, 1, Len(s)) = s

(* -------------------------- fidelity selector -------------------------- *)
\* "if self.current_time == 0": random point, lowest fidelity
ColdStartMut(t) == FALSE

ColdStart(t) == t = 0

\* gp_hyperparams of one model, as far as the controller reads them:
\* hypers[0], the prior standard deviation, and hypers[3], the prior mean
InitialHypers == [constant |-> PriorConstant, mean_constant |-> MeanConstant]

\* what model.current_hyperparams() can return after optim_hyperparams
HyperVals == {InitialHypers, [constant |-> 3, mean_constant |-> 5]}

\* self.X[i] != [] (per fidelity in the UCB family)
HasData(i) == X[i] # <<>>

\* grid-search branch always scales by beta; the continuous branch and
\* generate_fidelity scale only with increasing_thresholds
Scaled ==
  IF cfg.variant \in UCBFamily
    THEN cfg.grid_search \/ cfg.increasing_thresholds
    ELSE cfg.increasing_thresholds

\* the statistic compared with fidelity_thresholds[i]; std is the posterior
\* standard deviation at the chosen point.  In the multi-task classes the
\* posterior is always used: the selector runs only after the cheapest
\* fidelity has data (X[-1] != [])
Statistic(i, std) ==
  LET s == IF cfg.variant \in UCBFamily /\ ~HasData(i)
             THEN gp_hyperparams[i].constant ELSE std[i]
  IN  IF Scaled THEN beta * s ELSE s

RECURSIVE WalkMut(_, _, _)
WalkMut(i, std, thr) ==
  LET j == NumFid - i
  IN  IF j > NumFid - 1 THEN 0
      ELSE IF Statistic(j, std) > thr[j] THEN j
      ELSE WalkMut(i - 1, std, thr)

\* for i in reversed(range(num_of_fidelities)): ... break
RECURSIVE Walk(_, _, _)
Walk(i, std, thr) ==
  IF i = 0 THEN 0
  ELSE IF Statistic(i, std) > thr[i] THEN i
  ELSE Walk(i - 1, std, thr)

ExceedsCostThresholdMut(c, m) ==
  IF m = 0 THEN c >= 0
  ELSE IF cfg.variant = "mfLiveBatch"
    THEN c * expected_costs[m] >= expected_costs[m - 1] * cost_budget
    ELSE c * expected_costs[m] >= expected_costs[m - 1]

\* count > cost_thresholds[m], cost_thresholds[m] being
\* expected_costs[m-1] / expected_costs[m], times cost_budget in mfLiveBatch
ExceedsCostThreshold(c, m) ==
  IF m = 0 THEN c > 0
  ELSE IF cfg.variant = "mfLiveBatch"
    THEN c * expected_costs[m] > expected_costs[m - 1] * cost_budget
    ELSE c * expected_costs[m] > expected_costs[m - 1]

\* counter and threshold update that follows the walk in the UCB family
CountAndDouble(m, thr, cnt) ==
  LET c1 == [cnt EXCEPT ![m] = @ + 1]
      c2 == IF m # NumFid - 1 THEN [c1 EXCEPT ![m + 1] = 0] ELSE c1
  IN  IF ExceedsCostThreshold(c2[m], m) /\ m # 0
        THEN [m |-> m, thr |-> [thr EXCEPT ![m] = @ * 2], cnt |-> [c2 EXCEPT ![m] = 0]]
        ELSE [m |-> m, thr |-> thr, cnt |-> c2]

IsArgMax(f, ig) == \A g \in Fids : ig[f] * expected_costs[g] >= ig[g] * expected_costs[f]

\* argmax over f of ig[f] / expected_costs[f] (first maximum)
ArgMaxPerCost(ig) == CHOOSE f \in Fids : IsArgMax(f, ig) /\ \A g \in Fids : g < f => ~IsArgMax(g, ig)

\* MultiTaskUCBwILP.generate_fidelity / MF_TuRBO.generate_fidelity
generate_fidelity(std, ig) ==
  IF cfg.fidelity_choice = "variance_thresholds"
    THEN Walk(NumFid - 1, std, fidelity_thresholds)
    ELSE ArgMaxPerCost(ig)

\* optimise_af: the fidelity returned and the selector state it leaves.
\* std and ig are what the surrogate model reports at the optimised point
optimise_af(std, ig) ==
  LET same(m) == [m |-> m, thr |-> fidelity_thresholds, cnt |-> fidelity_count_list]
  IN  IF ColdStart(current_time) THEN same(NumFid - 1)
      ELSE IF cfg.variant \in UCBFamily
        THEN CountAndDouble(Walk(NumFid - 1, std, fidelity_thresholds),
                            fidelity_thresholds, fidelity_count_list)
      ELSE IF cfg.variant = "MF_MES"
        \* grid search: np.argmax(best_output) of the last scalar is 0
        THEN same(IF cfg.grid_search THEN 0 ELSE ArgMaxPerCost(ig))
      ELSE same(generate_fidelity(std, ig))

\* the variance-threshold policy is the one in use
VarianceThresholds ==
  \/ cfg.variant \in UCBFamily
  \/ cfg.variant \in TakesFidelityChoice /\ cfg.fidelity_choice = "variance_thresholds"

\* the lengths of the current runs of consecutive selections after a call
\* of the variance-threshold policy past the cold start selected m: the run
\* of m grows, or restarts if its threshold was doubled, and the run of
\* every other fidelity ends
RunLength(run, r) ==
  IF ColdStart(current_time) \/ ~VarianceThresholds THEN run
  ELSE [f \in Fids |->
          IF f # r.m THEN 0
          ELSE IF r.thr # fidelity_thresholds THEN 0
          ELSE run[f] + 1]

\* what the surrogate reports; a report the selector does not read is fixed
UsesInformation ==
  \/ cfg.variant = "MF_MES"
  \/ cfg.variant \in {"MultiTaskUCBwILP", "MF_TuRBO"} /\ cfg.fidelity_choice = "information_based"

StdChoices == IF UsesInformation THEN {[f \in LowFids |-> 0]} ELSE [LowFids -> StdVals]
IGChoices == IF UsesInformation THEN [Fids -> IGVals] ELSE {[f \in Fids |-> 1]}

(* ------------------------ acquisition function ------------------------- *)
\* a float that is not a number (0/0)
NaN == 900000

\* torch.log(1 + torch.exp(ucb)) in units of 0.1: exact to the unit at the
\* integers -3 .. 3, interpolated between them
SoftPlus(u) ==
  LET t == <<0, 1, 3, 7, 13, 21, 30>>
      k == (u + 30) \div 10
      r == (u + 30) % 10
  IN  IF u <= -30 THEN 0
      ELSE IF u >= 30 THEN u
      ELSE t[k + 1] + ((t[k + 2] - t[k + 1]) * r) \div 10

\* ucb * torch.min(norm / denominator, 1) with denominator =
\* (max_value - mean_pp + penalization_gamma * std_pp) / lipschitz
\* torch.min(norm / denominator, 1) as the fraction num / den; den = 0
\* stands for NaN (0 / 0), and a positive norm over a zero denominator is
\* inf, which the minimum turns into 1
penaliser(pp, maxv) ==
  LET num == pp.norm * pp.lipschitz
      den == maxv - pp.mean_pp + pp.std_pp
  IN  IF den = 0 THEN (IF num = 0 THEN [num |-> 0, den |-> 0] ELSE [num |-> 1, den |-> 1])
      ELSE IF den > 0 /\ num >= den THEN [num |-> 1, den |-> 1]
      ELSE [num |-> num, den |-> den]

Penalise(u, pp, maxv) ==
  LET p == penaliser(pp, maxv)
  IN  IF u = NaN \/ p.den = 0 THEN NaN
      ELSE (u * p.num) \div p.den

\* one pass of "for i, penalty_point_fidelity in enumerate(zip(batch,
\* batch_fids))": ucb[fidelity, :] = ucb[fidelity, :] * penaliser
PenaliseRow(u, pp) == [u EXCEPT ![pp.m] = Penalise(@, pp, max_value[pp.m])]

TorchMinMut(u) == u[0]

\* torch.min(ucb, dim = 0): the smallest entry, NaN if an entry is NaN
TorchMin(u) ==
  IF \E f \in Fids : u[f] = NaN THEN NaN
  ELSE CHOOSE v \in {u[f] : f \in Fids} : \A f \in Fids : v <= u[f]

\* the bias term of fidelity i: bias_list[i] * bias_constant in mfUCB and
\* where no bias sample exists, the bias posterior otherwise
BiasUCB(i, mean_bias, std_bias) ==
  IF cfg.variant # "mfUCB" /\ bias_X[i] # <<>>
    THEN mean_bias[i] + beta * std_bias[i]
    ELSE i * bias_constant

\* build_af of mfLiveBatch, mfUCB and mfUCBPlus at one candidate: the
\* per-fidelity array ucb before the penalisation loop
build_af(mean, std, mean_bias, std_bias) ==
  LET base == [i \in Fids |->
                 (IF HasData(i) THEN mean[i] + beta * std[i]
                                ELSE gp_hyperparams[i].mean_constant
                                     + beta * gp_hyperparams[i].constant)
                 + BiasUCB(i, mean_bias, std_bias)]
      soft == IF cfg.variant = "mfLiveBatch" /\ cfg.soft_plus_transform
                THEN [i \in Fids |-> SoftPlus(base[i])] ELSE base
  IN  soft

(* ------------------------------ ingestion ------------------------------ *)
AppendToMut(L, fid, v) == [L EXCEPT ![0] = Append(@, v)]

\* self.X[fid].append(...), self.Y[fid].append(...), self.T[fid].append(...)
AppendTo(L, fid, v) == [L EXCEPT ![fid] = Append(@, v)]

InflateBiasMut(b, diff) == IF diff > b THEN diff ELSE b

\* if diff > self.bias_constant: self.bias_constant = 1.2 * diff
InflateBias(b, diff) == IF diff > b THEN (6 * diff) \div 5 ELSE b

\* self.max_value[fid] = max(self.max_value[fid], new_obs[i]) in mfLiveBatch
\* and mfUCBPlus; one scalar in MultiTaskUCBwILP and MF_MES; not updated by
\* mfUCB.optim_loop and MF_TuRBO.optim_loop
NewMaxValue(mv, fid, y) ==
  IF cfg.variant \in {"mfLiveBatch", "mfUCBPlus"} THEN [mv EXCEPT ![fid] = Max(@, y)]
  ELSE IF cfg.variant \in {"MultiTaskUCBwILP", "MF_MES"} THEN Max(mv, y)
  ELSE mv

\* mfLiveBatch and mfUCBPlus store bias samples; mfUCB does not
CollectsBias == cfg.variant \in {"mfLiveBatch", "mfUCBPlus"}

\* "if fid == 0: for lower_fid in range(1, num_of_fidelities)": one bias
\* sample per lower fidelity, v[lower_fid] being what is appended
BiasSamples(L, fid, v) ==
  IF CollectsBias /\ fid = 0 THEN [f \in Fids |-> IF f >= 1 THEN Append(L[f], v[f]) ELSE L[f]]
  ELSE L

TakeAwayCostMut(bc, fid) == bc - fidelity_costs[0]

\* "take away batch cost": batch_costs - fidelity_costs[fid]
TakeAwayCost(bc, fid) == bc - fidelity_costs[fid]

\* body of "for i in range(num_of_obs)" for one returned observation o;
\* pred[f] is the posterior mean of fidelity f at o.x
IngestOne(a, o, pred, t) ==
  LET checks == cfg.variant \in UCBFamily /\ o.m # NumFid - 1
      turbo == cfg.variant = "MF_TuRBO" /\ o.m = 0
  IN  [X |-> AppendTo(a.X, o.m, ListOf(o.x)),
       Y |-> AppendTo(a.Y, o.m, o.y),
       T |-> AppendTo(a.T, o.m, t + 1),
       bias |-> IF checks THEN InflateBias(a.bias, o.y - pred[o.m + 1]) ELSE a.bias,
       bX |-> BiasSamples(a.bX, o.m, [f \in Fids |-> ListOf(o.x)]),
       bY |-> BiasSamples(a.bY, o.m, [f \in Fids |-> o.y - pred[f]]),
       maxv |-> NewMaxValue(a.maxv, o.m, o.y),
       costs |-> TakeAwayCost(a.costs, o.m),
       st |-> IF turbo THEN update_state(a.st, o.y) ELSE a.st,
       h |-> IF turbo THEN HistNext(a.h, a.st, o.y) ELSE a.h]

RECURSIVE Ingest(_, _, _, _, _)
Ingest(a, obs, preds, i, t) ==
  IF i > Len(obs) THEN a
  ELSE Ingest(IngestOne(a, obs[i], preds[i], t), obs, preds, i + 1, t)

(* --------------------------- the controllers --------------------------- *)
\* "while self.current_time <= self.budget - 1"
LoopGuard(t, budget) == t <= budget - 1

\* "while self.batch_costs < self.cost_budget"
FillGuardMut(bc) == bc <= cost_budget

FillGuard(bc) == bc < cost_budget

\* the controllers whose build_af penalises around the points of
\* current_batch
Penalising == cfg.variant \in {"mfLiveBatch", "MultiTaskUCBwILP"}

\* self.current_batch: the snapshot of env.query_list taken at the start of
\* optim_loop, then the points chosen in this iteration
current_batch == query_list \o new_Xs

\* an entry of lipschitz_batch_list for penalty point q: what
\* calculate_local_lipschitz returns for it, or the global constant
\* lipschitz_constant[fidelity]
LipschitzOf(q, local) == [x |-> q.x, m |-> q.m, local |-> local]

\* lipschitz_batch_list after the loop over the snapshot
SnapshotLipschitz ==
  IF Penalising
    THEN [i \in 1 .. Len(query_list) |-> LipschitzOf(query_list[i], cfg.local_lipschitz)]
    ELSE <<>>

NextLipschitzMut(list, q, bc) == list

\* "if loop is not going to break, add new lipschitz constant"
NextLipschitz(list, q, bc) ==
  IF Penalising /\ FillGuard(bc) THEN Append(list, LipschitzOf(q, TRUE)) ELSE list

\* start of optim_loop: snapshot of the batch in flight; the sequential
\* variants propose only when no primary query is being evaluated
OptimLoopBegin ==
  /\ pc = "run"
  /\ LoopGuard(current_time, cfg.budget)
  /\ IF cfg.variant = "mfUCBPlus" /\ ~cfg.fixed_beta
       THEN pc' = "raised" /\ UNCHANGED beta
       ELSE /\ IF cfg.fixed_beta THEN UNCHANGED beta ELSE beta' \in BetaVals
            /\ pc' = IF cfg.variant \in Batching
                       THEN (IF FillGuard(batch_costs) THEN "fill" ELSE "step")
                       ELSE (IF query_being_evaluated THEN "step" ELSE "primary")
  /\ new_Xs' = <<>>
  /\ lipschitz_batch_list' = SnapshotLipschitz
  /\ UNCHANGED <<cfg, current_time, batch_costs, fidelity_thresholds,
                 fidelity_count_list, bias_constant, max_value, X, Y, T,
                 query_being_evaluated, new_XM, query_list, obtained, n_af,
                 n_loops, n_drains, state, hist,
                 bias_X, bias_Y, ucb, min_ucb,
                 acqf,
                 X_next,
                 post_std, IGs,
                 run_length,
                 f_low_fid_pred,
                 last_n_obs, gp_hyperparams, hp_optimised, obs_since,
                 penalisers,
                 caller_thresholds, fidelity_thresholds_init>>

\* one pass of the batch-filling loop, or the primary query of a
\* sequential variant: optimise_af and the cost bookkeeping
Propose(next_pc) ==
  \E std \in StdChoices, ig \in IGChoices :
    LET r == optimise_af(std, ig)
        q == [x |-> Point, m |-> r.m]
        bc == batch_costs + fidelity_costs[r.m]
    IN  /\ new_XM' = q
        /\ new_Xs' = Append(new_Xs, q)
        /\ batch_costs' = bc
        /\ fidelity_thresholds' = r.thr
        /\ caller_thresholds' = WriteThrough(caller_thresholds, r.thr)
        /\ fidelity_count_list' = r.cnt
        /\ n_af' = n_af + 1
        /\ run_length' = RunLength(run_length, r)
        /\ pc' = IF FillGuard(bc) THEN next_pc ELSE "step"

Fill ==
  /\ pc = "fill"
  /\ Propose("fill")
  /\ lipschitz_batch_list' = NextLipschitz(lipschitz_batch_list, new_XM', batch_costs')
  /\ UNCHANGED <<cfg, current_time, beta, bias_constant, max_value, X, Y, T,
                 query_being_evaluated, query_list, obtained,
                 n_loops, n_drains, state, hist,
                 bias_X, bias_Y, ucb, min_ucb,
                 acqf,
                 X_next,
                 post_std, IGs,
                 f_low_fid_pred,
                 last_n_obs, gp_hyperparams, hp_optimised, obs_since,
                 penalisers,
                 fidelity_thresholds_init>>

Primary ==
  /\ pc = "primary"
  /\ Propose("filler")
  /\ query_being_evaluated' = TRUE
  /\ UNCHANGED <<cfg, current_time, beta, bias_constant, max_value, X, Y, T,
                 query_list, obtained, n_loops, n_drains, state, hist,
                 bias_X, bias_Y, ucb, min_ucb,
                 acqf,
                 X_next,
                 post_std, IGs,
                 f_low_fid_pred,
                 last_n_obs, gp_hyperparams, hp_optimised, obs_since,
                 lipschitz_batch_list,
                 penalisers,
                 fidelity_thresholds_init>>

\* "now fill the remaining batch space randomly": a random point at the
\* fidelity new_M of the primary query
Filler ==
  /\ pc = "filler"
  /\ LET q == [x |-> RandomPoint, m |-> new_XM.m]
         bc == batch_costs + fidelity_costs[new_XM.m]
     IN  /\ new_Xs' = Append(new_Xs, q)
         /\ batch_costs' = bc
         /\ pc' = IF FillGuard(bc) THEN "filler" ELSE "step"
  /\ UNCHANGED <<cfg, current_time, beta, fidelity_thresholds, fidelity_count_list,
                 bias_constant, max_value, X, Y, T, query_being_evaluated, new_XM,
                 query_list, obtained, n_af, n_loops, n_drains, state, hist,
                 bias_X, bias_Y, ucb, min_ucb,
                 acqf,
                 X_next,
                 post_std, IGs,
                 run_length,
                 f_low_fid_pred,
                 last_n_obs, gp_hyperparams, hp_optimised, obs_since,
                 lipschitz_batch_list,
                 penalisers,
                 caller_thresholds, fidelity_thresholds_init>>

\* posterior means of the next-lower fidelity at the returned points; only
\* the UCB family reads them
PredRead(m, f) ==
  /\ cfg.variant \in UCBFamily
  /\ m # NumFid - 1
  /\ f = m + 1 \/ (CollectsBias /\ m = 0 /\ f >= 1)

RECURSIVE PredSeqs(_, _)
PredSeqs(back, i) ==
  IF i > Len(back) THEN {<<>>}
  ELSE {<<q>> \o rest :
          q \in {v \in [Fids -> PredVals] :
                   \A f \in Fids : ~PredRead(back[i].m, f) => v[f] = 0},
          rest \in PredSeqs(back, i + 1)}

PredChoices(back) == PredSeqs(back, 1)

\* n_obs = n_obs + len(self.X[fid]) over the fidelities 0 .. n
RECURSIVE SumOver(_, _)
SumOver(lens, n) == IF n < 0 THEN 0 ELSE lens[n] + SumOver(lens, n - 1)

\* "update hyperparams if needed" at the end of optim_loop.  lens[f] is
\* len(self.X[f]) after the ingestion and new[f] what current_hyperparams()
\* of model f returns once optimised.  mfLiveBatch and mfUCB gate each model
\* on its own count and last_n_obs entry; mfUCBPlus tests
\* len(X[F-1]) % hp_update_frequency == 0 and keeps no last_n_obs; the
\* multi-task classes hold one model (index 0 here), gated on the total
\* count and "len(self.X[-1]) > 0"
update_hyperparams(lens, last, hypers, new) ==
  LET k == cfg.hp_update_frequency
      total == SumOver(lens, NumFid - 1)
  IN  IF k = None THEN [last |-> last, hypers |-> hypers, optimised |-> {}]
      ELSE IF cfg.variant \in {"mfLiveBatch", "mfUCB"} THEN
        LET fire(f) == lens[f] > 0 /\ lens[f] >= k + last[f]
        IN  [last |-> [f \in Fids |-> IF fire(f) THEN lens[f] ELSE last[f]],
             hypers |-> [f \in Fids |-> IF fire(f) THEN new[f] ELSE hypers[f]],
             optimised |-> {f \in Fids : fire(f)}]
      ELSE IF cfg.variant = "mfUCBPlus" THEN
        IF lens[NumFid - 1] > 0 /\ lens[NumFid - 1] % k = 0
          THEN [last |-> last, hypers |-> [f \in Fids |-> new[NumFid - 1]],
                optimised |-> {NumFid - 1}]
          ELSE [last |-> last, hypers |-> hypers, optimised |-> {}]
      ELSE
        IF lens[NumFid - 1] > 0 /\ total >= k + last
          THEN [last |-> total, hypers |-> [f \in Fids |-> new[0]], optimised |-> {0}]
          ELSE [last |-> last, hypers |-> hypers, optimised |-> {}]

\* the fidelities whose observations count for model mdl
CountedFor(mdl) == IF cfg.variant \in UCBFamily THEN {mdl} ELSE Fids

\* observations per fidelity ingested since the model that counts them was
\* last optimised
ObsSince(since, obs, optimised) ==
  [f \in Fids |->
     IF \E mdl \in optimised : f \in CountedFor(mdl) THEN 0
     ELSE since[f] + Cardinality({i \in 1 .. Len(obs) : obs[i].m = f})]

\* a model that is not optimised returns the hyper-parameters it has
HyperChoices ==
  IF cfg.hp_update_frequency = None THEN {gp_hyperparams} ELSE [Fids -> HyperVals]

\* env.step(new_Xs, new_Ms) and the rest of optim_loop: the environment
\* returns any subset of the queries in flight with their values, the
\* objective cfg.objective of the run evaluated at the query's fidelity
EnvStep ==
  /\ pc = "step"
  /\ LET inflight == query_list \o new_Xs
     IN  \E S \in SUBSET (1 .. Len(inflight)) :
           /\ Cardinality(S) <= MaxResolved
           /\ LET back == Pick(inflight, S, 1)
                  n == Len(back)
              IN  \E preds \in PredChoices(back), new \in HyperChoices :
                    LET obs == [i \in 1 .. n |-> [x |-> back[i].x, m |-> back[i].m,
                                                   y |-> cfg.objective[back[i].m]]]
                        a0 == [X |-> X, Y |-> Y, T |-> T, bias |-> bias_constant,
                               bX |-> bias_X, bY |-> bias_Y,
                               maxv |-> max_value, costs |-> batch_costs,
                               st |-> state, h |-> hist]
                        a == Ingest(a0, obs, preds, 1, current_time)
                        hp == update_hyperparams([f \in Fids |-> Len(a.X[f])],
                                                 last_n_obs, gp_hyperparams, new)
                    IN  /\ obtained' = obs
                        /\ f_low_fid_pred' = preds
                        /\ last_n_obs' = hp.last
                        /\ gp_hyperparams' = hp.hypers
                        /\ hp_optimised' = hp.optimised
                        /\ obs_since' = ObsSince(obs_since, obs, hp.optimised)
                        /\ query_list' = Pick(inflight, (1 .. Len(inflight)) \ S, 1)
                        /\ X' = a.X /\ Y' = a.Y /\ T' = a.T
                        /\ bias_constant' = a.bias
                        /\ bias_X' = a.bX /\ bias_Y' = a.bY
                        /\ max_value' = a.maxv
                        /\ batch_costs' = a.costs
                        /\ state' = a.st
                        /\ hist' = a.h
                        /\ query_being_evaluated' =
                             IF cfg.variant \in Sequential /\ n > 0 THEN FALSE
                             ELSE query_being_evaluated
  /\ new_Xs' = <<>>
  /\ current_time' = current_time + 1
  /\ n_loops' = n_loops + 1
  /\ pc' = "run"
  /\ UNCHANGED <<cfg, beta, fidelity_thresholds, fidelity_count_list, new_XM,
                 n_af, n_drains, ucb, min_ucb,
                 acqf,
                 X_next,
                 post_std, IGs,
                 run_length,
                 lipschitz_batch_list,
                 penalisers,
                 caller_thresholds, fidelity_thresholds_init>>

\* "for i in range(num_of_remaining_queries)" of run_optim
RECURSIVE Reformat(_, _, _, _)
Reformat(a, obs, i, t) ==
  IF i > Len(obs) THEN a
  ELSE Reformat([X |-> AppendTo(a.X, obs[i].m, NestedListOf(obs[i].x)),
                 Y |-> AppendTo(a.Y, obs[i].m, obs[i].y),
                 T |-> AppendTo(a.T, obs[i].m, t + 1)], obs, i + 1, t)

\* end of run_optim: env.finished_with_optim() and the reformatting loop
Drain ==
  /\ pc = "run"
  /\ ~LoopGuard(current_time, cfg.budget)
  /\ LET n == Len(query_list)
     IN    LET obs == [i \in 1 .. n |-> [x |-> query_list[i].x, m |-> query_list[i].m,
                                          y |-> cfg.objective[query_list[i].m]]]
               a == Reformat([X |-> X, Y |-> Y, T |-> T], obs, 1, current_time)
           IN  /\ obtained' = obs
               /\ X' = a.X /\ Y' = a.Y /\ T' = a.T
  /\ query_list' = <<>>
  /\ n_drains' = n_drains + 1
  /\ pc' = "done"
  /\ UNCHANGED <<cfg, current_time, batch_costs, beta, fidelity_thresholds,
                 fidelity_count_list, bias_constant, max_value,
                 query_being_evaluated, new_Xs, new_XM, n_af, n_loops,
                 state, hist,
                 bias_X, bias_Y, ucb, min_ucb,
                 acqf,
                 X_next,
                 post_std, IGs,
                 run_length,
                 f_low_fid_pred,
                 last_n_obs, gp_hyperparams, hp_optimised, obs_since,
                 lipschitz_batch_list,
                 penalisers,
                 caller_thresholds, fidelity_thresholds_init>>

\* __init__: "assert fidelity_choice in [...]", then run_optim is called
Construct ==
  /\ pc = "new"
  /\ pc' = IF cfg.fidelity_choice \in FidelityChoices THEN "run" ELSE "asserted"
  /\ UNCHANGED <<cfg, current_time, batch_costs, beta, fidelity_thresholds,
                 fidelity_count_list, bias_constant, max_value, X, Y, T,
                 query_being_evaluated, new_Xs, new_XM, query_list, obtained,
                 n_af, n_loops, n_drains, state, hist, bias_X, bias_Y,
                 ucb, min_ucb, acqf,
                 X_next,
                 post_std, IGs,
                 run_length,
                 f_low_fid_pred,
                 last_n_obs, gp_hyperparams, hp_optimised, obs_since,
                 lipschitz_batch_list,
                 penalisers,
                 caller_thresholds, fidelity_thresholds_init>>

\* assert acqf in ("ts"): ("ts") is the string "ts", so the test is
\* substring containment
AcqfAssertion(a) == a \in {"", "t", "s", "ts"}

\* MF_TuRBO.generate_batch called on the constructed controller with an
\* acquisition-function name: the assertion, then the branch
\* "if acqf == 'ts'"; with another name that passes the assertion X_next is
\* unbound at the return
generate_batch ==
  /\ pc = "run"
  /\ cfg.variant = "MF_TuRBO"
  /\ \E a \in AcqfVals :
       /\ acqf' = a
       /\ X_next' = IF ~AcqfAssertion(a) THEN "AssertionError"
                    ELSE IF a = "ts" THEN "candidates"
                    ELSE "UnboundLocalError"
  /\ UNCHANGED <<cfg, pc, current_time, batch_costs, beta, fidelity_thresholds,
                 fidelity_count_list, bias_constant, max_value, X, Y, T,
                 query_being_evaluated, new_Xs, new_XM, query_list, obtained,
                 n_af, n_loops, n_drains, state, hist, bias_X, bias_Y,
                 ucb, min_ucb,
                 post_std, IGs,
                 run_length,
                 f_low_fid_pred,
                 last_n_obs, gp_hyperparams, hp_optimised, obs_since,
                 lipschitz_batch_list,
                 penalisers,
                 caller_thresholds, fidelity_thresholds_init>>

(* --------------------------- specifications ---------------------------- *)
EmptyLists == [f \in Fids |-> <<>>]

\* initialise_stuff: the clock and the observation lists
NoObservations ==
  /\ current_time = 0
  /\ X = EmptyLists /\ Y = EmptyLists /\ T = EmptyLists
  /\ bias_X = EmptyLists /\ bias_Y = EmptyLists

\* the fidelity_thresholds argument of the constructor: None, for which the
\* controller builds its own list of 0.1, or the caller's list;
\* fidelity_thresholds_init is a list of its own in mfLiveBatch and its
\* subclasses, and the multi-task controllers have no such attribute
ThresholdsArgument ==
  /\ caller_thresholds =
       IF fidelity_thresholds = [f \in Fids |-> DefaultThreshold] THEN <<>>
       ELSE fidelity_thresholds
  /\ fidelity_thresholds_init =
       IF cfg.variant \in UCBFamily THEN fidelity_thresholds ELSE <<>>

\* the rest of the state after __init__
ConstructedFields(c) ==
  /\ cfg = c
  /\ batch_costs = 0
  /\ fidelity_count_list = [f \in Fids |-> 0]
  /\ bias_constant = IF c.variant \in UCBFamily THEN c.initial_bias ELSE 0
  /\ query_being_evaluated = FALSE
  /\ new_Xs = <<>> /\ new_XM = NoQuery
  /\ query_list = <<>> /\ obtained = <<>>
  /\ n_af = 0 /\ n_loops = 0 /\ n_drains = 0
  /\ hist = HistInit
  /\ ucb = [f \in Fids |-> 0] /\ min_ucb = 0
  /\ acqf = "ts"
  /\ X_next = "none"
  /\ post_std = [f \in LowFids |-> 0]
  /\ IGs = [f \in Fids |-> 1]
  /\ run_length = [f \in Fids |-> 0]
  /\ f_low_fid_pred = <<>>
  /\ last_n_obs = IF c.variant \in UCBFamily THEN [f \in Fids |-> 0] ELSE 0
  /\ gp_hyperparams = [f \in Fids |-> InitialHypers]
  /\ hp_optimised = {}
  /\ obs_since = [f \in Fids |-> 0]
  /\ lipschitz_batch_list = <<>>
  /\ penalisers = <<>>

\* self.max_value = [0 for _ in range(self.num_of_fidelities)], and the
\* scalar -10 of the multi-task controllers
InitialMax(c) == IF c.variant \in UCBFamily THEN [f \in Fids |-> 0] ELSE -100

Constructed(c) == ConstructedFields(c) /\ max_value = InitialMax(c)

\* max_value once the first observation of every fidelity of fs is ingested
RECURSIVE MaxValueAfter(_, _)
MaxValueAfter(mv, fs) ==
  IF fs = {} THEN mv
  ELSE LET f == CHOOSE g \in fs : TRUE
       IN  MaxValueAfter(NewMaxValue(mv, f, cfg.objective[f]), fs \ {f})

Configs ==
  [variant : Variants, budget : 0 .. MaxBudget, initial_bias : InitialBiasVals,
   grid_search : {FALSE}, increasing_thresholds : {FALSE},
   fidelity_choice : {"variance_thresholds", "other"}, fixed_beta : BOOLEAN,
   soft_plus_transform : {FALSE}, local_lipschitz : {TRUE}, hp_update_frequency : {None}, objective : Objectives]

\* a constructor call with its arguments; the attributes already hold what
\* __init__ assigns if it returns
Init ==
  /\ \E c \in Configs :
       /\ c.variant \notin UCBFamily => c.initial_bias = 1
       /\ c.variant \notin TakesFidelityChoice => c.fidelity_choice = "variance_thresholds"
       /\ Constructed(c)
  /\ NoObservations
  /\ pc = "new"
  /\ beta = 1
  /\ \E v \in ThresholdVals : fidelity_thresholds = [f \in Fids |-> v]
  /\ ThresholdsArgument
  /\ state = TurboState(2)

Next ==
  \/ Construct \/ OptimLoopBegin \/ Fill \/ Primary \/ Filler \/ EnvStep \/ Drain
  \/ generate_batch

Spec == Init /\ [][Next]_vars

\* the steps of the construction and of run_optim: the script constructs the
\* controller and then runs the loop and the drain without waiting on anything
RunOptimStep ==
  Construct \/ OptimLoopBegin \/ Fill \/ Primary \/ Filler \/ EnvStep \/ Drain

FairSpec == Spec /\ WF_vars(RunOptimStep)

(* ----- the synchronous controllers alone: run_optim of mfUCB and -------- *)
(* ----- mfUCBPlus constructed with a fixed beta, over a longer run ------- *)
SyncConfigs ==
  [variant : Sequential, budget : {MaxRounds}, initial_bias : {1},
   grid_search : {FALSE}, increasing_thresholds : {FALSE},
   fidelity_choice : {"variance_thresholds"}, fixed_beta : {TRUE},
   soft_plus_transform : {FALSE}, local_lipschitz : {TRUE}, hp_update_frequency : {None}, objective : {[f \in Fids |-> 10]}]

InitSync ==
  /\ \E c \in SyncConfigs : Constructed(c)
  /\ NoObservations
  /\ pc = "run"
  /\ beta = 1
  /\ \E v \in ThresholdVals : fidelity_thresholds = [f \in Fids |-> v]
  /\ ThresholdsArgument
  /\ state = TurboState(2)

NextSync == OptimLoopBegin \/ Primary \/ Filler \/ EnvStep \/ Drain

SpecSync == InitSync /\ [][NextSync]_vars

(* ----- run_optim of a controller constructed with an ---------------------- *)
(* ----- hp_update_frequency: the hyper-parameters are re-optimised -------- *)
FrequencyVals == {1, 2}

HPConfigs ==
  [variant : Variants, budget : {MaxBudget}, initial_bias : {1},
   grid_search : {FALSE}, increasing_thresholds : {FALSE},
   fidelity_choice : {"variance_thresholds"}, fixed_beta : {TRUE},
   soft_plus_transform : {FALSE}, local_lipschitz : {TRUE}, hp_update_frequency : FrequencyVals,
   objective : {[f \in Fids |-> 10]}]

InitHP ==
  /\ \E c \in HPConfigs : Constructed(c)
  /\ NoObservations
  /\ pc = "run"
  /\ beta = 1
  /\ fidelity_thresholds = [f \in Fids |-> DefaultThreshold]
  /\ ThresholdsArgument
  /\ state = TurboState(2)

NextHP == OptimLoopBegin \/ Fill \/ Primary \/ Filler \/ EnvStep \/ Drain

SpecHP == InitHP /\ [][NextHP]_vars

(* ----- run_optim of the penalising controllers, with the local and ------- *)
(* ----- with the global Lipschitz constant -------------------------------- *)
LipschitzConfigs ==
  [variant : {"mfLiveBatch", "MultiTaskUCBwILP"}, budget : {MaxBudget}, initial_bias : {1},
   grid_search : {FALSE}, increasing_thresholds : {FALSE},
   fidelity_choice : {"variance_thresholds"}, fixed_beta : {TRUE},
   soft_plus_transform : {FALSE}, hp_update_frequency : {None},
   local_lipschitz : BOOLEAN, objective : {[f \in Fids |-> 10]}]

InitLipschitz ==
  /\ \E c \in LipschitzConfigs : Constructed(c)
  /\ NoObservations
  /\ pc = "run"
  /\ beta = 1
  /\ \E v \in ThresholdVals : fidelity_thresholds = [f \in Fids |-> v]
  /\ ThresholdsArgument
  /\ state = TurboState(2)

NextLipschitzSpec == OptimLoopBegin \/ Fill \/ EnvStep \/ Drain

SpecLipschitz == InitLipschitz /\ [][NextLipschitzSpec]_vars

(* ----- the selector alone: optimise_af called on a constructed ---------- *)
(* ----- controller, before and after the first observations -------------- *)
AFConfigs ==
  [variant : Variants, budget : {MaxBudget}, initial_bias : {1},
   grid_search : BOOLEAN, increasing_thresholds : BOOLEAN,
   fidelity_choice : {"variance_thresholds", "information_based"},
   fixed_beta : {TRUE}, soft_plus_transform : {FALSE}, local_lipschitz : {TRUE}, hp_update_frequency : {None},
   objective : {[f \in Fids |-> 10]}]

\* the first observations have arrived: the clock has advanced and the
\* cheapest fidelity, the only one queried at time 0, has data
AfterFirstObservations ==
  /\ current_time = 1
  /\ \E fs \in SUBSET Fids :
       /\ NumFid - 1 \in fs
       /\ X = [f \in Fids |-> IF f \in fs THEN <<ListOf(Point)>> ELSE <<>>]
       /\ Y = [f \in Fids |-> IF f \in fs THEN <<cfg.objective[f]>> ELSE <<>>]
       /\ max_value = MaxValueAfter(InitialMax(cfg), fs)
       /\ T = [f \in Fids |-> IF f \in fs THEN <<1>> ELSE <<>>]
  /\ bias_X = EmptyLists /\ bias_Y = EmptyLists

InitAF ==
  /\ \E c \in AFConfigs :
       /\ c.variant \in UCBFamily \cup {"MF_MES"} => c.fidelity_choice = "variance_thresholds"
       /\ ConstructedFields(c)
  /\ \/ NoObservations /\ max_value = InitialMax(cfg)
     \/ AfterFirstObservations
  /\ pc = "af"
  /\ beta \in BetaVals
  /\ \E v \in AFThresholdVals : fidelity_thresholds = [f \in Fids |-> v]
  /\ ThresholdsArgument
  /\ state = TurboState(2)

AFCall ==
  /\ pc = "af"
  /\ n_af < MaxAFCalls
  /\ \E std \in StdChoices, ig \in IGChoices :
       LET r == optimise_af(std, ig)
       IN  /\ new_XM' = [x |-> Point, m |-> r.m]
           /\ fidelity_thresholds' = r.thr
           /\ caller_thresholds' = WriteThrough(caller_thresholds, r.thr)
           /\ fidelity_count_list' = r.cnt
           /\ run_length' = RunLength(run_length, r)
           /\ post_std' = std
           /\ IGs' = ig
  /\ n_af' = n_af + 1
  /\ UNCHANGED <<cfg, pc, current_time, batch_costs, beta, bias_constant, max_value,
                 X, Y, T, query_being_evaluated, new_Xs, query_list, obtained,
                 n_loops, n_drains, state, hist,
                 bias_X, bias_Y, ucb, min_ucb,
                 acqf,
                 X_next,
                 f_low_fid_pred,
                 last_n_obs, gp_hyperparams, hp_optimised, obs_since,
                 lipschitz_batch_list,
                 penalisers,
                 fidelity_thresholds_init>>

NextAF == AFCall

SpecAF == InitAF /\ [][NextAF]_vars

(* ----- the acquisition function alone: build_af evaluated at one -------- *)
(* ----- candidate on a controller of the UCB family that holds data ------ *)
BuildAFConfigs ==
  [variant : UCBFamily, budget : {MaxBudget}, initial_bias : {1},
   grid_search : {FALSE}, increasing_thresholds : {FALSE},
   fidelity_choice : {"variance_thresholds"}, fixed_beta : {TRUE},
   soft_plus_transform : BOOLEAN, local_lipschitz : {TRUE}, hp_update_frequency : {None},
   objective : {[f \in Fids |-> 10], [f \in Fids |-> 2]}]

\* a penalty point of current_batch as build_af sees it; the posterior at a
\* fidelity without data is the prior
PenaltyPoints ==
  {pp \in [m : Fids, norm : NormVals, lipschitz : LipschitzVals,
           mean_pp : PredVals, std_pp : StdVals \cup {PriorConstant}] :
     IF HasData(pp.m) THEN pp.std_pp \in StdVals
     ELSE /\ pp.mean_pp = gp_hyperparams[pp.m].mean_constant
          /\ pp.std_pp = gp_hyperparams[pp.m].constant}

\* posterior values at the candidate; a value build_af does not read is fixed
PosteriorChoices(L, vals) ==
  {v \in [Fids -> vals] : \A f \in Fids : L[f] = <<>> => v[f] = 0}

InitBuildAF ==
  /\ \E c \in BuildAFConfigs :
       /\ c.soft_plus_transform => c.variant = "mfLiveBatch"
       /\ ConstructedFields(c)
  /\ current_time = 1
  /\ \E fs \in {{NumFid - 1}, Fids}, bs \in {{}, LowFids} :
       /\ bs # {} => fs = Fids /\ cfg.variant # "mfUCB"
       /\ X = [f \in Fids |-> IF f \in fs THEN <<ListOf(Point)>> ELSE <<>>]
       /\ Y = [f \in Fids |-> IF f \in fs THEN <<cfg.objective[f]>> ELSE <<>>]
       /\ max_value = MaxValueAfter(InitialMax(cfg), fs)
       /\ T = [f \in Fids |-> IF f \in fs THEN <<1>> ELSE <<>>]
       /\ bias_X = [f \in Fids |-> IF f \in bs THEN <<ListOf(Point)>> ELSE <<>>]
       /\ bias_Y = [f \in Fids |-> IF f \in bs THEN <<0>> ELSE <<>>]
  /\ pc = "build_af"
  /\ beta \in BetaVals
  /\ fidelity_thresholds = [f \in Fids |-> DefaultThreshold]
  /\ ThresholdsArgument
  /\ state = TurboState(2)

\* one evaluation of build_af up to the penalisation loop; mfUCB and
\* mfUCBPlus have no such loop and return the minimum at once
BuildAF ==
  /\ pc = "build_af"
  /\ \E mean \in PosteriorChoices(X, PredVals), std \in PosteriorChoices(X, StdVals),
        mean_bias \in PosteriorChoices(bias_X, PredVals),
        std_bias \in PosteriorChoices(bias_X, StdVals) :
       LET r == build_af(mean, std, mean_bias, std_bias)
       IN  /\ ucb' = r
           /\ IF cfg.variant = "mfLiveBatch"
                 THEN pc' = "penalise" /\ UNCHANGED min_ucb
                 ELSE pc' = "built" /\ min_ucb' = TorchMin(r)
  /\ penalisers' = <<>>
  /\ UNCHANGED <<cfg, current_time, batch_costs, beta, fidelity_thresholds,
                 fidelity_count_list, bias_constant, max_value, X, Y, T,
                 query_being_evaluated, new_Xs, new_XM, query_list, obtained,
                 n_af, n_loops, n_drains, state, hist, bias_X, bias_Y,
                 acqf,
                 X_next,
                 post_std, IGs,
                 run_length,
                 f_low_fid_pred,
                 last_n_obs, gp_hyperparams, hp_optimised, obs_since,
                 lipschitz_batch_list,
                 caller_thresholds, fidelity_thresholds_init>>

\* the penalisation loop of mfLiveBatch.build_af: one more penalty point of
\* current_batch, or the end of the loop and the return of the minimum
PenaliseStep ==
  /\ pc = "penalise"
  /\ \/ /\ Len(penalisers) < MaxPenalty
        /\ \E pp \in PenaltyPoints :
             /\ ucb' = PenaliseRow(ucb, pp)
             /\ penalisers' = Append(penalisers,
                                     [norm |-> pp.norm,
                                      factor |-> penaliser(pp, max_value[pp.m])])
        /\ UNCHANGED <<pc, min_ucb>>
     \/ /\ min_ucb' = TorchMin(ucb)
        /\ pc' = "built"
        /\ UNCHANGED <<ucb, penalisers>>
  /\ UNCHANGED <<cfg, current_time, batch_costs, beta, fidelity_thresholds,
                 fidelity_count_list, bias_constant, max_value, X, Y, T,
                 query_being_evaluated, new_Xs, new_XM, query_list, obtained,
                 n_af, n_loops, n_drains, state, hist, bias_X, bias_Y,
                 acqf,
                 X_next,
                 post_std, IGs,
                 run_length,
                 f_low_fid_pred,
                 last_n_obs, gp_hyperparams, hp_optimised, obs_since,
                 lipschitz_batch_list,
                 caller_thresholds, fidelity_thresholds_init>>

NextBuildAF == BuildAF \/ PenaliseStep

SpecBuildAF == InitBuildAF /\ [][NextBuildAF]_vars

(* ----- the trust-region state alone: update_state fed observations ------ *)
InitTurbo ==
  /\ Constructed([variant |-> "MF_TuRBO", budget |-> MaxBudget, initial_bias |-> 1,
                  grid_search |-> FALSE, increasing_thresholds |-> FALSE,
                  fidelity_choice |-> "variance_thresholds", fixed_beta |-> TRUE,
                  soft_plus_transform |-> FALSE, local_lipschitz |-> TRUE, hp_update_frequency |-> None,
                  objective |-> [f \in Fids |-> 10]])
  /\ NoObservations
  /\ pc = "turbo"
  /\ beta = 1
  /\ fidelity_thresholds = [f \in Fids |-> DefaultThreshold]
  /\ ThresholdsArgument
  /\ \E d \in DimVals : state = TurboState(d)

\* self.state = self.update_state(self.state, self.new_obs[i])
UpdateState ==
  /\ pc = "turbo"
  /\ hist.calls < MaxCalls
  /\ \E y \in TurboObs :
       /\ state' = update_state(state, y)
       /\ hist' = HistNext(hist, state, y)
  /\ UNCHANGED <<cfg, pc, current_time, batch_costs, beta, fidelity_thresholds,
                 fidelity_count_list, bias_constant, max_value, X, Y, T,
                 query_being_evaluated, new_Xs, new_XM, query_list, obtained,
                 n_af, n_loops, n_drains,
                 bias_X, bias_Y, ucb, min_ucb,
                 acqf,
                 X_next,
                 post_std, IGs,
                 run_length,
                 f_low_fid_pred,
                 last_n_obs, gp_hyperparams, hp_optimised, obs_since,
                 lipschitz_batch_list,
                 penalisers,
                 caller_thresholds, fidelity_thresholds_init>>

NextTurbo == UpdateState

SpecTurbo == InitTurbo /\ [][NextTurbo]_vars

(* ------------------------------ the claims ----------------------------- *)
RECURSIVE SeqMax(_)
SeqMax(seq) == IF Len(seq) = 1 THEN seq[1] ELSE Max(Head(seq), SeqMax(Tail(seq)))

AtEnvStep == pc = "step" /\ cfg.variant \in Batching

\* C1 (as claimed): in the batching controllers the total batch cost never
\* exceeds cost_budget at the moment optim_loop calls env.step.
C1_CostWithinBudget == AtEnvStep => batch_costs <= cost_budget

\* C2 (as claimed): every round of a batching controller passes at least one
\* new query to env.step.
C2_AlwaysDispatches == AtEnvStep => new_Xs # <<>>

\* C2 (amended): a round of a batching controller passes at least one new
\* query to env.step exactly when the cost in flight at the start of the
\* round is below cost_budget; a round that starts with a full batch passes
\* none.
C2_DispatchesIffRoom ==
  AtEnvStep => (new_Xs # <<>> <=> batch_costs - SumCosts(new_Xs) < cost_budget)

C2_Witness ==
  /\ AtEnvStep
  /\ current_time >= 1
  /\ new_Xs # <<>>
  /\ query_list # <<>>

\* C3: while current_time = 0, optimise_af of every controller returns the
\* cheapest fidelity and leaves the fidelity thresholds and the usage
\* counters as they were, whatever the configuration.
C3_ColdStart ==
  [][(pc = "af" /\ current_time = 0) =>
       /\ new_XM'.m = NumFid - 1
       /\ fidelity_thresholds' = fidelity_thresholds
       /\ fidelity_count_list' = fidelity_count_list]_vars

C3_Witness ==
  /\ pc = "af"
  /\ current_time = 0
  /\ n_af >= 2
  /\ new_XM.m = NumFid - 1
  /\ cfg.grid_search
  /\ cfg.variant = "mfLiveBatch"
  /\ fidelity_thresholds[NumFid - 1] = 8

\* the last n entries of seq
Suffix(seq, n) == SubSeq(seq, Len(seq) - n + 1, Len(seq))

\* C4 (as claimed): run_optim terminates for every budget: it runs optim_loop
\* exactly budget times, current_time going from 0 to budget in steps of 1,
\* then calls env.finished_with_optim exactly once and appends every drained
\* query to the history of its fidelity with time budget + 1.
C4_RunOptim ==
  /\ <>(pc = "done")
  /\ [][/\ current_time' # current_time =>
             current_time' = current_time + 1 /\ n_loops' = n_loops + 1
        /\ n_loops' # n_loops => current_time' = current_time + 1
        /\ n_drains' # n_drains => n_drains = 0 /\ n_loops = cfg.budget]_vars
  /\ [](pc = "done" =>
          /\ n_loops = cfg.budget
          /\ current_time = cfg.budget
          /\ n_drains = 1
          /\ \A f \in Fids :
               LET ys == ColumnOf(obtained, f, "y")
               IN  /\ Len(ys) <= Len(Y[f])
                   /\ Suffix(Y[f], Len(ys)) = ys
                   /\ Suffix(X[f], Len(ys)) =
                        [i \in 1 .. Len(ys) |-> NestedListOf(ColumnOf(obtained, f, "x")[i])]
                   /\ Suffix(T[f], Len(ys)) = [i \in 1 .. Len(ys) |-> cfg.budget + 1])

\* C5 (as claimed): bias_constant never decreases, for every initial_bias
\* the constructor accepts.
C5_BiasNeverDecreases == [][bias_constant' >= bias_constant]_vars

\* C6 (as claimed): from the freshly constructed TurboState, after
\* success_tolerance = 10 consecutive update_state calls each carrying an
\* observation greater than every earlier one, length is 1.6 and
\* success_counter is 0.
C6_TenImproving ==
  (pc = "turbo" /\ hist.improving /\ hist.calls = state.success_tolerance) =>
    (state.length = LengthMax /\ state.success_counter = 0)

\* C7: from a freshly constructed TurboState, failure_tolerance =
\* ceil(max(4, dim)) consecutive update_state calls whose observation does
\* not improve on the best value halve length (0.8 to 0.4) and reset
\* failure_counter to 0; fewer such calls leave length unchanged.
C7_Failures ==
  (pc = "turbo" /\ hist.nonimproving) =>
    /\ state.failure_tolerance = Max(4, state.dim)
    /\ hist.calls < state.failure_tolerance =>
         state.length = LengthInit /\ state.failure_counter = hist.calls
    /\ hist.calls = state.failure_tolerance =>
         2 * state.length = LengthInit /\ state.failure_counter = 0

C7_Witness ==
  /\ pc = "turbo"
  /\ hist.nonimproving
  /\ state.dim = 5
  /\ hist.calls = state.failure_tolerance

\* C8 (as claimed): in every reachable trust-region state
\* length_min <= length <= length_max.
C8_Clamped ==
  pc = "turbo" => (state.length_min <= state.length /\ state.length <= state.length_max)

\* C8 (amended): in every reachable trust-region state length <= length_max;
\* length is not clamped from below: it can fall below length_min, and
\* whenever it is below length_min restart_triggered is set.
C8_UpperClamp ==
  pc = "turbo" =>
    /\ state.length <= state.length_max
    /\ state.length < state.length_min => state.restart_triggered

C8_Witness ==
  /\ pc = "turbo"
  /\ state.length < state.length_min
  /\ state.restart_triggered

\* C9 (as claimed): for every fidelity with at least one ingested
\* observation, max_value of that fidelity equals the maximum of the values
\* observed at it.
C9_RunningMax ==
  (pc = "run" /\ cfg.variant = "mfLiveBatch") =>
    \A f \in Fids : Y[f] # <<>> => max_value[f] = SeqMax(Y[f])

\* C10: the observation lists X[f], Y[f], T[f] are append-only, have equal
\* length, and an observation returned for fidelity f (by env.step or by the
\* final drain) is appended to the lists of fidelity f only.
C10_AppendOnly ==
  /\ [](\A f \in Fids : Len(X[f]) = Len(Y[f]) /\ Len(Y[f]) = Len(T[f]))
  /\ [][LET returned == IF n_loops' # n_loops \/ n_drains' # n_drains
                          THEN obtained' ELSE <<>>
        IN  \A f \in Fids :
              /\ IsPrefix(X[f], X'[f]) /\ IsPrefix(Y[f], Y'[f]) /\ IsPrefix(T[f], T'[f])
              /\ X'[f] = X[f] \o [i \in 1 .. Len(ColumnOf(returned, f, "x")) |->
                                     IF n_drains' # n_drains
                                       THEN NestedListOf(ColumnOf(returned, f, "x")[i])
                                       ELSE ListOf(ColumnOf(returned, f, "x")[i])]
              /\ Y'[f] = Y[f] \o ColumnOf(returned, f, "y")
              /\ Len(T'[f]) = Len(T[f]) + Len(ColumnOf(returned, f, "y"))]_vars

C10_Witness ==
  /\ pc = "done"
  /\ obtained # <<>>
  /\ Len(Y[NumFid - 1]) >= 2
  /\ Len(Y[0]) >= 1
  /\ T[NumFid - 1][1] < T[0][Len(T[0])]

\* C11: build_af of mfLiveBatch, mfUCB and mfUCBPlus returns exactly the
\* minimum over the fidelities of the fidelity's bias-adjusted, penalised UCB
\* at the candidate, so the value returned never exceeds the UCB of the
\* target fidelity 0.
C11_FusedIsMinimum ==
  pc = "built" =>
    IF \E f \in Fids : ucb[f] = NaN THEN min_ucb = NaN
    ELSE /\ \A f \in Fids : min_ucb <= ucb[f]
         /\ \E f \in Fids : min_ucb = ucb[f]
         /\ ~(min_ucb > ucb[0])

C11_Witness ==
  /\ pc = "built"
  /\ cfg.variant = "mfLiveBatch"
  /\ \A f \in Fids : ucb[f] # NaN
  /\ min_ucb < ucb[0]
  /\ min_ucb = ucb[1]
  /\ ucb[1] < ucb[2]

\* C12 (as claimed): a bias sample for fidelity f > 0 is appended only while
\* a fidelity-0 observation is ingested and only if fidelity f has at least
\* one observation at that moment; no bias sample is ever stored for
\* fidelity 0.
C12_BiasSampleNeedsData ==
  /\ [](bias_X[0] = <<>> /\ bias_Y[0] = <<>>)
  /\ [][\A f \in Fids :
          Len(bias_X'[f]) > Len(bias_X[f]) =>
            /\ f >= 1
            /\ \E i \in 1 .. Len(obtained') :
                 /\ obtained'[i].m = 0
                 /\ X[f] # <<>> \/ \E j \in 1 .. (i - 1) : obtained'[j].m = f]_vars

\* C13 (as claimed): an unsupported fidelity_choice or acquisition-function
\* name is rejected by an assertion while the controller is constructed, so
\* no controller with such a value reaches optim_loop or proposes a query.
C13_RejectedAtConstruction ==
  (cfg.fidelity_choice \notin FidelityChoices \/ acqf # "ts") =>
    /\ pc \in {"new", "asserted"}
    /\ n_loops = 0
    /\ n_af = 0

\* C14: after the cold start, variance-threshold selection returns the
\* largest index i in 1..F-1 whose statistic (std_i(x), beta * std_i(x) when
\* scaled) is strictly greater than fidelity_thresholds[i], and 0 when there
\* is none; the result is a fidelity index.
C14_LargestExceeding ==
  [][(n_af' = n_af + 1 /\ ~ColdStart(current_time) /\ VarianceThresholds) =>
       LET S == {i \in LowFids : Statistic(i, post_std') > fidelity_thresholds[i]}
       IN  /\ new_XM'.m \in Fids
           /\ new_XM'.m = IF S = {} THEN 0
                          ELSE CHOOSE i \in S : \A j \in S : j <= i]_vars

\* the walk passed over the cheapest fidelity, whose statistic equals its
\* threshold, and stopped at fidelity 1
C14_Witness ==
  /\ n_af > 0 /\ ~ColdStart(current_time) /\ VarianceThresholds
  /\ new_XM.m = 1
  /\ fidelity_count_list[1] > 0
  /\ Statistic(2, post_std) = fidelity_thresholds[2]
  /\ Statistic(1, post_std) > fidelity_thresholds[1]

\* C15 (as claimed): information-based selection, in MF_MES.optimise_af
\* with and without grid search and in generate_fidelity, returns a fidelity
\* whose information gain per unit expected cost is the largest.
C15_ArgMaxPerCost ==
  [][(n_af' = n_af + 1 /\ ~ColdStart(current_time) /\ UsesInformation) =>
       \A g \in Fids :
         IGs'[new_XM'.m] * expected_costs[g] >= IGs'[g] * expected_costs[new_XM'.m]]_vars

\* C16 (as claimed): in mfUCB and mfUCBPlus a primary query, the one
\* optimise_af returns, is never issued while an earlier primary query is
\* still in flight, whatever subset of the queries the environment resolves.
C16_OnePrimaryInFlight ==
  [][(cfg.variant \in Sequential /\ pc = "primary" /\ n_af' = n_af + 1) =>
       \A i \in 1 .. Len(query_list) : query_list[i].x # Point]_vars

\* C17 (as claimed): in mfUCB and mfUCBPlus every filler query of a round is
\* issued at the cheapest fidelity, whatever the fidelity of the primary.
C17_FillerIsCheapest ==
  [][(cfg.variant \in Sequential /\ pc = "filler" /\ Len(new_Xs') > Len(new_Xs)) =>
       new_Xs'[Len(new_Xs')].m = NumFid - 1]_vars

\* C18 (as claimed): in the UCB family fidelity_count_list[m], m >= 1, is
\* the length of the current run of consecutive selections of fidelity m
\* since its last threshold doubling; a selection of any other fidelity
\* restarts it.
C18_CountsConsecutive ==
  cfg.variant \in UCBFamily =>
    \A m \in LowFids : fidelity_count_list[m] = run_length[m]

\* C19: in mfLiveBatch.optimise_af after the cold start, selecting m >= 1
\* increments its counter; if the counter then exceeds
\* expected_costs[m-1] / expected_costs[m] * cost_budget, fidelity_thresholds[m]
\* is doubled and the counter reset to 0; otherwise all thresholds are
\* unchanged.  The threshold of fidelity 0 never changes and no threshold
\* ever decreases.
C19_DoublingRule ==
  [][cfg.variant = "mfLiveBatch" =>
       /\ fidelity_thresholds'[0] = fidelity_thresholds[0]
       /\ \A f \in Fids : fidelity_thresholds'[f] >= fidelity_thresholds[f]
       /\ (n_af' = n_af + 1 /\ ~ColdStart(current_time)) =>
            LET m == new_XM'.m
                c == fidelity_count_list[m] + 1
            IN  IF m >= 1 /\ c * expected_costs[m] > expected_costs[m - 1] * cost_budget
                  THEN /\ fidelity_thresholds' =
                            [fidelity_thresholds EXCEPT ![m] = 2 * fidelity_thresholds[m]]
                       /\ fidelity_count_list'[m] = 0
                  ELSE /\ fidelity_thresholds' = fidelity_thresholds
                       /\ fidelity_count_list'[m] = c]_vars

\* the cheapest fidelity was selected often enough for its threshold to be
\* doubled and its counter reset
C19_Witness ==
  /\ cfg.variant = "mfLiveBatch"
  /\ ~ColdStart(current_time)
  /\ new_XM.m = NumFid - 1
  /\ fidelity_thresholds[NumFid - 1] = 2 * fidelity_thresholds[0]
  /\ fidelity_count_list[NumFid - 1] = 0
  /\ n_af * expected_costs[NumFid - 1] > expected_costs[NumFid - 2] * cost_budget

\* C20 (as claimed): in MultiTaskUCBwILP and MF_TuRBO with
\* fidelity_choice = 'variance_thresholds' a fidelity selected more often
\* than its cost-ratio threshold has its threshold doubled and its counter
\* reset, so no run of selections since the last doubling is longer than
\* expected_costs[m-1] / expected_costs[m] * cost_budget.
C20_DoublingEverywhere ==
  (cfg.variant \in TakesFidelityChoice /\ cfg.fidelity_choice = "variance_thresholds") =>
    \A m \in LowFids :
      run_length[m] * expected_costs[m] <= expected_costs[m - 1] * cost_budget

\* the bias check of the ingestion loop over a returned batch: an
\* observation at a fidelity other than the cheapest is compared with the
\* posterior mean of the next cheaper fidelity, model[fid + 1]
RECURSIVE BiasCheck(_, _, _, _)
BiasCheck(b, obs, preds, i) ==
  IF i > Len(obs) THEN b
  ELSE LET diff == obs[i].y - preds[i][obs[i].m + 1]
       IN  BiasCheck(IF obs[i].m # NumFid - 1 /\ diff > b THEN (6 * diff) \div 5 ELSE b,
                     obs, preds, i + 1)

C22_GatedByNewObservations ==
  [][n_loops' = n_loops + 1 =>
       /\ \A mdl \in hp_optimised' :
            LET counted == {i \in 1 .. Len(obtained') : obtained'[i].m \in CountedFor(mdl)}
                before == CHOOSE f \in CountedFor(mdl) : TRUE
            IN  /\ cfg.hp_update_frequency # None
                /\ (IF cfg.variant \in UCBFamily THEN obs_since[before]
                     ELSE SumOver(obs_since, NumFid - 1)) + Cardinality(counted)
                      >= cfg.hp_update_frequency
       /\ cfg.hp_update_frequency = None =>
            hp_optimised' = {} /\ gp_hyperparams' = gp_hyperparams]_vars

\* C23 (as claimed): every call of optim_loop, in every variant and
\* whether beta is fixed or recomputed, runs to completion, calls env.step
\* exactly once and advances current_time by exactly 1.
C23_LoopCompletes ==
  /\ [][(pc = "run" /\ pc' # "run" /\ LoopGuard(current_time, cfg.budget)) =>
          pc' \in {"fill", "primary", "step"}]_vars
  /\ [][(pc = "step" /\ pc' # "step") =>
          /\ pc' = "run"
          /\ n_loops' = n_loops + 1
          /\ current_time' = current_time + 1]_vars
  /\ [][current_time' # current_time => pc = "step"]_vars

\* optimise_af of a penalising controller runs build_af: a pass of the
\* filling loop after the cold start
BuildAFRuns ==
  Penalising /\ pc = "fill" /\ ~ColdStart(current_time) /\ n_af' = n_af + 1

\* C24 (as claimed): with local_lipschitz = False every entry of
\* lipschitz_batch_list that build_af uses, for in-flight points and for
\* points chosen earlier in the same iteration, is the global constant of
\* the penalty point's fidelity.
C24_GlobalOnly ==
  [][(BuildAFRuns /\ ~cfg.local_lipschitz) =>
       \A i \in 1 .. Len(lipschitz_batch_list) : ~lipschitz_batch_list[i].local]_vars

\* C28: whenever build_af runs inside optim_loop of mfLiveBatch or
\* MultiTaskUCBwILP, lipschitz_batch_list has exactly one entry per penalty
\* point of current_batch, in the same order: the in-flight snapshot first,
\* then the points chosen earlier in this iteration.
C28_OneEntryPerPenaltyPoint ==
  [][BuildAFRuns =>
       /\ Len(lipschitz_batch_list) = Len(current_batch)
       /\ \A i \in 1 .. Len(current_batch) :
            /\ lipschitz_batch_list[i].x = current_batch[i].x
            /\ lipschitz_batch_list[i].m = current_batch[i].m]_vars

\* build_af has run with a penalty point in flight and one chosen earlier in
\* the same iteration
C28_Witness ==
  /\ Penalising /\ ~ColdStart(current_time)
  /\ pc \in {"fill", "step"}
  /\ query_list # <<>>
  /\ Len(new_Xs) >= 2

\* C25 (as claimed): every penaliser factor min(norm / denominator, 1) that
\* build_af multiplies into the acquisition lies in [0, 1], whatever
\* max_value, the posterior at the penalty point and the Lipschitz constant
\* are, and it is 0 when the candidate is the penalty point.
C25_PenaliserInUnitInterval ==
  pc = "built" =>
    \A i \in 1 .. Len(penalisers) :
      LET p == penalisers[i].factor
      IN  /\ p.den # 0
          /\ IF p.den > 0 THEN 0 <= p.num /\ p.num <= p.den
                          ELSE p.num <= 0 /\ p.den <= p.num
          /\ penalisers[i].norm = 0 => p.num = 0

\* C26: restart_triggered is False after construction; an update_state call
\* leaves it True exactly if it was True before or the call leaves
\* length < length_min, so it is False as long as every update left
\* length >= length_min and is never cleared; no restart is performed: once
\* the flag is set the next update still continues from the same state
\* (best_value does not decrease, length is kept, halved or doubled, the
\* tolerances and the dimension stay).
C26_RestartFlag ==
  /\ (pc = "turbo" => ~state.restart_triggered)
  /\ [][pc = "turbo" =>
          /\ state'.restart_triggered =
               (state.restart_triggered \/ state'.length < state'.length_min)
          /\ state.restart_triggered =>
               /\ state'.best_value >= state.best_value
               /\ state'.length \in {state.length, state.length \div 2,
                                      Min(2 * state.length, state.length_max)}
               /\ state'.failure_counter \in {0, state.failure_counter + 1}
               /\ state'.success_counter \in {0, state.success_counter + 1}
               /\ state'.dim = state.dim
               /\ state'.failure_tolerance = state.failure_tolerance]_vars

\* the flag was set by the 7th halving and a further update has kept it
C26_Witness ==
  /\ pc = "turbo"
  /\ state.restart_triggered
  /\ hist.calls = 7 * state.failure_tolerance + 1
  /\ state.failure_counter = 1

\* C27: at the end of every optim_loop batch_costs equals the sum of
\* fidelity_costs over the queries dispatched so far and not yet returned,
\* and hence is never negative.
C27_CostBookkeeping ==
  (pc = "run" /\ n_loops > 0) =>
    /\ batch_costs = SumCosts(query_list)
    /\ batch_costs >= 0

\* an iteration has ended with one query returned and others in flight
C27_Witness ==
  /\ pc = "run" /\ n_loops >= 2
  /\ obtained # <<>>
  /\ Len(query_list) >= 2
  /\ batch_costs = SumCosts(query_list)
  /\ batch_costs > 0

\* C29: after every update_state call success_counter is in
\* 0 .. success_tolerance - 1, failure_counter is in
\* 0 .. failure_tolerance - 1, at most one of the two is non-zero, and
\* best_value is the greatest of the target-fidelity observations fed so far.
C29_CountersAndBest ==
  (cfg.variant = "MF_TuRBO" /\ hist.calls > 0) =>
    /\ state.success_counter \in 0 .. state.success_tolerance - 1
    /\ state.failure_counter \in 0 .. state.failure_tolerance - 1
    /\ state.success_counter = 0 \/ state.failure_counter = 0
    /\ state.best_value = hist.fed_max

\* an observation below the best one was fed after successes: the counters
\* were switched and best_value kept
C29_Witness ==
  /\ pc = "turbo"
  /\ hist.calls >= 3
  /\ state.failure_counter = 1
  /\ state.success_counter = 0
  /\ state.best_value = 21
  /\ ~hist.improving /\ ~hist.nonimproving

\* C30 (as claimed): a fidelity_thresholds list supplied by the caller is
\* left unchanged by any sequence of optimise_af calls, and
\* fidelity_thresholds_init always keeps the values given at construction.
C30_CallerListUntouched ==
  [][/\ caller_thresholds' = caller_thresholds
     /\ fidelity_thresholds_init' = fidelity_thresholds_init]_vars

====
